---- MODULE Spec2Model ----
(***************************************************************************)
(* A model of tools/catalog.py: the Catalog container (metadata `par`, a   *)
(* property table `prop`, the per-cluster galaxy tables `gal`), its        *)
(* indexing and concatenation, and its two persistence paths (pickle and   *)
(* the padded fixed-width .npy array).                                     *)
(*                                                                         *)
(* Python objects live in heaps (dicts, frames, bufs) and are named by     *)
(* their position, so that two Catalogs holding the same object is a fact  *)
(* of the state.  The library calls are modelled with the behaviour of the *)
(* numpy / pandas generation the module was written for (save_npy's        *)
(* docstring targets Python 2, DataFrame.append is used): a list of        *)
(* equal-length arrays becomes one 2-d array and a ragged list an object   *)
(* array (np.array), np.append flattens anything that is not 1-d, a field  *)
(* declared (name, type, 1) is a scalar field, and every numeric value of  *)
(* the model is far below 2^53, so a cast to float64 keeps the value and   *)
(* changes only the column's dtype.                                        *)
(***************************************************************************)
EXTENDS Integers, Sequences, FiniteSets, TLC

\* Bounds of the model.
MaxClusters == 2
MaxNgal == 2
MaxCats == 3
MaxLoads == 2
MaxUpdates == 1
MaxKeyLen == 2

VARIABLES dicts, frames, bufs, cats, file, last, nloads, nupdates

vars == <<dicts, frames, bufs, cats, file, last, nloads, nupdates>>

counters == <<nloads, nupdates>>

heap == <<dicts, frames, bufs, cats>>

----------------------------------------------------------------------------
\* Python helpers

Min(a, b) == IF a < b THEN a ELSE b

Max(a, b) == IF a < b THEN b ELSE a

\* s[:n] for n >= 0
Take(s, n) == SubSeq(s, 1, Min(n, Len(s)))

\* s[n:] for n >= 0
Drop(s, n) == SubSeq(s, Min(n, Len(s)) + 1, Len(s))

\* a sequence index i (negative counts from the end) of a sequence of length n
InRange(i, n) == -n <= i /\ i < n

\* the 1-based position of Python index i
Pos(i, n) == IF i < 0 THEN i + n + 1 ELSE i + 1

RECURSIVE Flatten(_)
Flatten(ss) == IF ss = <<>> THEN <<>> ELSE Head(ss) \o Flatten(Tail(ss))

Range(s) == {s[i] : i \in 1..Len(s)}

RECURSIVE SeqMax(_)
SeqMax(s) == IF Len(s) = 1 THEN s[1] ELSE Max(s[1], SeqMax(Tail(s)))

\* the sequences over S of length at most n
SeqsUpTo(S, n) == UNION {[1..k -> S] : k \in 0..n}

----------------------------------------------------------------------------
\* Names, as character sequences: load_npy slices them.

Marker == <<"g", "a", "l", "_">>

NgalName == <<"N", "g", "a", "l">>

MassName == <<"M">>

GalMassName == <<"g", "a", "l", "_", "M">>

VlosName == <<"v">>

\* the metadata key and values used by the model
ParKey == "name"

Zero == 0

Mark == 7

\* the objects a Catalog can hold: None is 0
None == 0

\* the dict `{}` created once, when load_npy is defined
DefaultPar == 1

EmptyDict == [k \in {} |-> 0]

----------------------------------------------------------------------------
\* Values

\* a galaxy table of the model: n galaxies of cluster c, one record each
Table(c, n) == [names |-> <<VlosName>>, types |-> <<"<f8">>, dim |-> 1,
                data |-> [j \in 1..n |-> <<10 * c + j>>]]

\* a property table: one row per cluster, columns cols
Frame(cols, ngals, base) ==
  [kind |-> "frame", cols |-> cols, dtypes |-> <<"int64", "float64">>,
   index |-> [c \in 1..Len(ngals) |-> c - 1],
   rows |-> [c \in 1..Len(ngals) |-> <<ngals[c], 100 + base + c>>]]

Ref(b) == [t |-> "ref", buf |-> b]

Rec(r) == [t |-> "rec", val |-> r]

----------------------------------------------------------------------------
\* Reading a Catalog's fields.  B is the heap of array buffers.

\* the records of a 1-d structured array: a buffer of its own (row 0) or a
\* row of a 2-d buffer
Arr1dData(g, B) == IF g.row = 0 THEN B[g.buf].data ELSE B[g.buf].data[g.row]

\* len(self.gal)
GalLen(g, B) ==
  CASE g.kind \in {"list", "obj"} -> Len(g.items)
    [] g.kind = "arr2d" -> Len(B[g.buf].data)
    [] g.kind = "arr1d" -> Len(Arr1dData(g, B))
    [] OTHER -> 0

\* self.gal[i] for i in range(len(self.gal)), by value: a galaxy table, or
\* one galaxy record when gal is a flat array of records
GalElems(g, B) ==
  CASE g.kind \in {"list", "obj"} ->
         [i \in 1..Len(g.items) |->
            IF g.items[i].t = "ref"
              THEN [t |-> "table", val |-> B[g.items[i].buf].data]
              ELSE [t |-> "rec", val |-> g.items[i].val]]
    [] g.kind = "arr2d" ->
         [i \in 1..Len(B[g.buf].data) |->
            [t |-> "table", val |-> B[g.buf].data[i]]]
    [] g.kind = "arr1d" ->
         [i \in 1..Len(Arr1dData(g, B)) |->
            [t |-> "rec", val |-> Arr1dData(g, B)[i]]]
    [] OTHER -> <<>>

\* the field names and element types of self.gal[0].dtype
GalNames(g, B) ==
  CASE g.kind \in {"list", "obj"} -> B[g.items[1].buf].names
    [] OTHER -> B[g.buf].names

GalTypes(g, B) ==
  CASE g.kind \in {"list", "obj"} -> B[g.items[1].buf].types
    [] OTHER -> B[g.buf].types

\* __len__ (line 60): len(self.prop); a Series counts its entries
PropLen(f) == IF f.kind = "frame" THEN Len(f.rows) ELSE Len(f.data)

CatLen(c) == PropLen(frames[cats[c].prop])

\* the shape the class documents: prop a table, gal a sequence of tables
IsTabular(c) ==
  /\ cats[c].prop # None
  /\ frames[cats[c].prop].kind = "frame"
  /\ cats[c].gal.kind \in {"list", "obj", "arr2d"}
  /\ cats[c].gal.kind \in {"list", "obj"} =>
       \A i \in 1..Len(cats[c].gal.items) : cats[c].gal.items[i].t = "ref"

----------------------------------------------------------------------------
\* numpy

\* np.array(tables) for a Python list of 1-d structured arrays (one dtype):
\* equal lengths stack into a new 2-d array, a ragged list becomes an object
\* array of the same array objects, an empty list an empty float array
NpArray(items, B) ==
  IF items = <<>> THEN [gal |-> [kind |-> "float0"], bufs |-> B]
  ELSE IF \A i \in 1..Len(items) :
            Len(B[items[i].buf].data) = Len(B[items[1].buf].data)
    THEN [gal |-> [kind |-> "arr2d", buf |-> Len(B) + 1],
          bufs |-> Append(B, [names |-> B[items[1].buf].names,
                              types |-> B[items[1].buf].types,
                              dim |-> 2,
                              data |-> [i \in 1..Len(items) |->
                                          B[items[i].buf].data]])]
    ELSE [gal |-> [kind |-> "obj", items |-> items], bufs |-> B]

----------------------------------------------------------------------------
\* __getitem__ (lines 41-49)

\* a type check that lets a slice through as well
KeyAcceptedWithSlice(key) ==
  key.type \in {"int", "bool", "list", "ndarray", "slice"}

\* isinstance(key, int) | isinstance(key, list) | isinstance(key, np.ndarray);
\* a bool is an int
KeyAccepted(key) == key.type \in {"int", "bool", "list", "ndarray"}

TypeRepr(t) == "<class '" \o t \o "'>"

\* self.prop.iloc[key] of a table
PropIloc(f, key) ==
  CASE key.type = "bool" -> [err |-> "TypeError"]
    [] key.type = "int" ->
         IF InRange(key.val[1], Len(f.rows))
           THEN [err |-> "none",
                 val |-> [kind |-> "series",
                          dtype |-> IF "float64" \in Range(f.dtypes)
                                      THEN "float64" ELSE "int64",
                          index |-> f.cols,
                          data |-> f.rows[Pos(key.val[1], Len(f.rows))]]]
           ELSE [err |-> "IndexError"]
    [] OTHER ->
         IF \A k \in 1..Len(key.val) : InRange(key.val[k], Len(f.rows))
           THEN [err |-> "none",
                 val |-> [f EXCEPT
                   !.index = [k \in 1..Len(key.val) |->
                                f.index[Pos(key.val[k], Len(f.rows))]],
                   !.rows = [k \in 1..Len(key.val) |->
                               f.rows[Pos(key.val[k], Len(f.rows))]]]]
           ELSE [err |-> "IndexError"]

\* .reset_index(drop=True): a copy labelled 0..k-1; the copy is a new object,
\* which takes the next free place (slot) of the heap of frames
ResetIndex(f) ==
  IF f.kind = "frame"
    THEN [f EXCEPT !.index = [k \in 1..Len(f.rows) |-> k - 1]]
    ELSE [f EXCEPT !.index = [k \in 1..Len(f.data) |-> k - 1]]

\* self.gal[key]
GalIndex(g, key, B) ==
  LET n == GalLen(g, B) IN
  IF key.type \in {"int", "bool"}
    THEN IF ~InRange(key.val[1], n) THEN [err |-> "IndexError"]
         ELSE IF g.kind = "arr2d"
           THEN [err |-> "none", bufs |-> B,
                 gal |-> [kind |-> "arr1d", buf |-> g.buf,
                          row |-> Pos(key.val[1], n)]]
           ELSE [err |-> "none", bufs |-> B,
                 gal |-> [kind |-> "arr1d",
                          buf |-> g.items[Pos(key.val[1], n)].buf, row |-> 0]]
  ELSE IF g.kind = "list" THEN [err |-> "TypeError"]
  ELSE IF \E k \in 1..Len(key.val) : ~InRange(key.val[k], n)
    THEN [err |-> "IndexError"]
  ELSE IF g.kind = "obj"
    THEN [err |-> "none", bufs |-> B,
          gal |-> [kind |-> "obj",
                   items |-> [k \in 1..Len(key.val) |->
                                g.items[Pos(key.val[k], n)]]]]
    ELSE [err |-> "none",
          gal |-> [kind |-> "arr2d", buf |-> Len(B) + 1],
          bufs |-> Append(B, [B[g.buf] EXCEPT
                     !.data = [k \in 1..Len(key.val) |->
                                 B[g.buf].data[Pos(key.val[k], n)]]])]

\* the call self[key] on Catalog c: the error raised, or the new Catalog's
\* fields and the buffers after the call
GetItem(c, key) ==
  IF ~KeyAccepted(key)
    THEN [err |-> "Exception",
          msg |-> "Unknown key type: " \o TypeRepr(key.type)]
  ELSE LET p == PropIloc(frames[cats[c].prop], key) IN
    IF p.err # "none" THEN [err |-> p.err, msg |-> ""]
    ELSE LET g == GalIndex(cats[c].gal, key, bufs) IN
      IF g.err # "none" THEN [err |-> g.err, msg |-> ""]
      ELSE [err |-> "none", msg |-> "", par |-> cats[c].par,
            prop |-> ResetIndex(p.val), slot |-> Len(frames) + 1,
            gal |-> g.gal, bufs |-> g.bufs]

----------------------------------------------------------------------------
\* __add__ (lines 51-56)

\* self.prop.append(catalog.prop) of two tables with the same columns
PropAppend(fa, fb) ==
  [kind |-> "frame", cols |-> fa.cols,
   dtypes |-> [k \in 1..Len(fa.cols) |->
                 IF fa.dtypes[k] = fb.dtypes[k] THEN fa.dtypes[k]
                 ELSE "float64"],
   index |-> fa.index \o fb.index,
   rows |-> fa.rows \o fb.rows]

\* what np.append makes of one operand: asanyarray, then ravel unless 1-d
Ravel(g, B) ==
  CASE g.kind = "obj" -> [kind |-> "obj", items |-> g.items]
    [] g.kind = "arr2d" -> [kind |-> "recs", data |-> Flatten(B[g.buf].data)]
    [] OTHER ->
         LET a == NpArray(g.items, B) IN
         IF a.gal.kind = "arr2d"
           THEN [kind |-> "recs", data |-> Flatten(a.bufs[a.gal.buf].data)]
           ELSE a.gal

AsItems(r) == IF r.kind = "obj" THEN r.items
              ELSE [k \in 1..Len(r.data) |-> Rec(r.data[k])]

\* np.append(self.gal, catalog.gal): concatenate the two 1-d arrays
NpAppend(ga, gb, B) ==
  LET ra == Ravel(ga, B)
      rb == Ravel(gb, B)
      kinds == {ra.kind, rb.kind}
  IN CASE kinds = {"float0"} ->
            [err |-> "none", gal |-> [kind |-> "float0"], bufs |-> B]
       [] kinds = {"float0", "recs"} -> [err |-> "TypeError"]
       [] kinds = {"recs"} ->
            [err |-> "none",
             gal |-> [kind |-> "arr1d", buf |-> Len(B) + 1, row |-> 0],
             bufs |-> Append(B, [names |-> GalNames(ga, B),
                                 types |-> GalTypes(ga, B), dim |-> 1,
                                 data |-> ra.data \o rb.data])]
       [] OTHER ->
            [err |-> "none", bufs |-> B,
             gal |-> [kind |-> "obj",
                      items |-> (IF ra.kind = "float0" THEN <<>>
                                 ELSE AsItems(ra))
                                \o (IF rb.kind = "float0" THEN <<>>
                                    ELSE AsItems(rb))]]

\* a concatenation that appends in place to the left operand's table
AddInPlace(a, b) ==
  LET p == ResetIndex(PropAppend(frames[cats[a].prop], frames[cats[b].prop]))
      g == NpAppend(cats[a].gal, cats[b].gal, bufs)
  IN IF g.err # "none" THEN [err |-> g.err, msg |-> ""]
     ELSE [err |-> "none", msg |-> "", par |-> cats[a].par, prop |-> p,
           slot |-> cats[a].prop, gal |-> g.gal, bufs |-> g.bufs]

\* the call a + b: the error raised, or the new Catalog's fields
Add(a, b) ==
  LET p == ResetIndex(PropAppend(frames[cats[a].prop], frames[cats[b].prop]))
      g == NpAppend(cats[a].gal, cats[b].gal, bufs)
  IN IF g.err # "none" THEN [err |-> g.err, msg |-> ""]
     ELSE [err |-> "none", msg |-> "", par |-> cats[a].par, prop |-> p,
           slot |-> Len(frames) + 1, gal |-> g.gal, bufs |-> g.bufs]

----------------------------------------------------------------------------
\* save_npy (lines 80-110)

ColPos(cols, name) == CHOOSE k \in 1..Len(cols) : cols[k] = name

\* a field declared (name, type, n): n = 1 declares a scalar
FieldShape(n) == IF n = 1 THEN <<>> ELSE <<n>>

\* lines 92-94: the record schema
NpyDescr(f, g, B, max_ngal) ==
  [k \in 1..Len(f.cols) |->
     [name |-> f.cols[k], type |-> "<f8", shape |-> <<>>]]
  \o [k \in 1..Len(GalNames(g, B)) |->
        [name |-> Marker \o GalNames(g, B)[k], type |-> GalTypes(g, B)[k],
         shape |-> FieldShape(max_ngal)]]

\* line 105, right-hand side: column k of galaxy table tab
Column(tab, k) == [j \in 1..Len(tab) |-> tab[j][k]]

\* line 105: col written into the first slots of a zero vector of length n
Padded(col, n) == [j \in 1..n |-> IF j <= Len(col) THEN col[j] ELSE Zero]

\* the array save_npy builds for Catalog c, or the error it raises
SaveNpy(c) ==
  LET f == frames[cats[c].prop]
      g == cats[c].gal
      n == Len(f.rows)
      elems == GalElems(g, bufs)
  IN IF NgalName \notin Range(f.cols) THEN [err |-> "KeyError"]
     ELSE IF Len(elems) = 0 THEN [err |-> "IndexError"]
     ELSE IF n = 0 THEN [err |-> "ValueError"]
     ELSE
       LET ngal == [i \in 1..n |-> f.rows[i][ColPos(f.cols, NgalName)]]
           max_ngal == SeqMax(ngal)
           descr == NpyDescr(f, g, bufs, max_ngal)
           nf == Len(GalNames(g, bufs))
       IN IF Cardinality({descr[k].name : k \in 1..Len(descr)}) < Len(descr)
            THEN [err |-> "ValueError"]
          ELSE IF FieldShape(max_ngal) = <<>> THEN [err |-> "TypeError"]
          ELSE IF Len(elems) < n THEN [err |-> "IndexError"]
          ELSE IF \E i \in 1..n : Len(elems[i].val) # ngal[i]
            THEN [err |-> "ValueError"]
          ELSE [err |-> "none",
                arr |-> [kind |-> "npy", structured |-> TRUE, descr |-> descr,
                         data |-> [i \in 1..n |->
                           f.rows[i] \o
                           [k \in 1..nf |->
                              Padded(Column(elems[i].val, k), max_ngal)]]]]

----------------------------------------------------------------------------
\* load_npy (lines 112-131)

\* the positions of the fields of x.dtype.descr that carry the marker
GalFields(descr) ==
  SelectSeq([k \in 1..Len(descr) |-> k],
            LAMBDA k : Take(descr[k].name, 4) = Marker)

PropFields(descr) ==
  SelectSeq([k \in 1..Len(descr) |-> k],
            LAMBDA k : Take(descr[k].name, 4) # Marker)

FieldPos(descr, name) == CHOOSE k \in 1..Len(descr) : descr[k].name = name

\* lines 117-124: the galaxy tables read from the file, or the error raised
\* before any field of the receiver is assigned
ReadNpy(x) ==
  IF x.kind = "missing" THEN [err |-> "IOError"]
  ELSE IF x.kind # "npy" THEN [err |-> "ValueError"]
  ELSE
    LET gf == GalFields(x.descr)
        n == Len(x.data)
    IN IF \E k \in 1..Len(gf) : x.descr[gf[k]].shape = <<>>
         THEN [err |-> "ValueError"]
       ELSE IF n > 0 /\ \A k \in 1..Len(x.descr) : x.descr[k].name # NgalName
         THEN [err |-> "ValueError"]
       ELSE
         LET ngal == [i \in 1..n |-> x.data[i][FieldPos(x.descr, NgalName)]]
         IN IF \E i \in 1..n, k \in 1..Len(gf) :
                 Len(Take(x.data[i][gf[k]], ngal[i])) # ngal[i]
              THEN [err |-> "ValueError"]
            ELSE [err |-> "none",
                  gals |-> [i \in 1..n |->
                    [names |-> [k \in 1..Len(gf) |->
                                  Drop(x.descr[gf[k]].name, 4)],
                     types |-> [k \in 1..Len(gf) |-> x.descr[gf[k]].type],
                     dim |-> 1,
                     data |-> [j \in 1..ngal[i] |->
                                 [k \in 1..Len(gf) |->
                                    Take(x.data[i][gf[k]], ngal[i])[j]]]]]]

\* lines 127-128: the property table built from the other fields
NpyFrame(x) ==
  LET pf == PropFields(x.descr) IN
  [kind |-> "frame",
   cols |-> [k \in 1..Len(pf) |-> x.descr[pf[k]].name],
   dtypes |-> [k \in 1..Len(pf) |-> "float64"],
   index |-> [i \in 1..Len(x.data) |-> i - 1],
   rows |-> [i \in 1..Len(x.data) |->
               [k \in 1..Len(pf) |-> x.data[i][pf[k]]]]]

\* the call load_npy(file, par): the error raised, the fields of the receiver
\* that were assigned (lines 126-129) with their values, and the buffers
\* after the call.  Line 127 iterates x.dtype.names, which is None for an
\* array without fields: the TypeError comes after self.par = par
LoadNpy(x, par) ==
  LET r == ReadNpy(x) IN
  IF r.err # "none" THEN [err |-> r.err, assigned |-> {}]
  ELSE IF ~x.structured
    THEN [err |-> "TypeError", assigned |-> {"par"}, par |-> par]
  ELSE LET a == NpArray([i \in 1..Len(r.gals) |-> Ref(Len(bufs) + i)],
                        bufs \o r.gals)
       IN [err |-> "none", assigned |-> {"par", "prop", "gal"},
           par |-> par, prop |-> NpyFrame(x), gal |-> a.gal, bufs |-> a.bufs]

----------------------------------------------------------------------------
\* save / load (lines 62-78): pickle writes the object graph by value and
\* load builds new objects from it

\* the buffers gal refers to, in increasing order
BufIds(g) ==
  CASE g.kind \in {"list", "obj"} ->
         {g.items[i].buf : i \in {k \in 1..Len(g.items) : g.items[k].t = "ref"}}
    [] g.kind \in {"arr2d", "arr1d"} -> {g.buf}
    [] OTHER -> {}

Rank(S, b) == Cardinality({x \in S : x <= b})

\* gal with every buffer b renamed to base + its rank among the ones used
Relocate(g, S, base) ==
  CASE g.kind \in {"list", "obj"} ->
         [g EXCEPT !.items =
            [i \in 1..Len(g.items) |->
               IF g.items[i].t = "ref"
                 THEN Ref(base + Rank(S, g.items[i].buf))
                 ELSE g.items[i]]]
    [] g.kind = "arr2d" -> [g EXCEPT !.buf = base + 1]
    [] g.kind = "arr1d" -> [g EXCEPT !.buf = base + 1, !.row = 0]
    [] OTHER -> g

\* pickle.dump(self): the three fields by value
Pickled(c) ==
  LET g == cats[c].gal
      S == BufIds(g)
  IN [kind |-> "pkl",
      par |-> IF cats[c].par = None THEN <<"None">>
              ELSE <<"dict", dicts[cats[c].par]>>,
      prop |-> frames[cats[c].prop],
      gal |-> Relocate(g, S, 0),
      bufs |-> IF g.kind = "arr1d"
                 THEN <<[bufs[g.buf] EXCEPT !.dim = 1,
                                            !.data = Arr1dData(g, bufs)]>>
                 ELSE [k \in 1..Cardinality(S) |->
                         bufs[CHOOSE b \in S : Rank(S, b) = k]]]

\* load (lines 68-78): the error pickle.load raises, or the fields assigned
\* from the new objects
Unpickle(x) ==
  IF x.kind = "missing" THEN [err |-> "IOError", assigned |-> {}]
  ELSE IF x.kind # "pkl" THEN [err |-> "UnpicklingError", assigned |-> {}]
  ELSE [err |-> "none", assigned |-> {"par", "prop", "gal"},
        par |-> x.par, prop |-> x.prop,
        gal |-> Relocate(x.gal, 1..Len(x.bufs), Len(bufs)),
        bufs |-> bufs \o x.bufs]

----------------------------------------------------------------------------
\* In-place updates by the caller

ParSet(d) == [k \in DOMAIN d \cup {ParKey} |-> IF k = ParKey THEN Mark ELSE d[k]]

\* cat.gal[i][field][j] = Mark, with field the first one
GalSet(g, i, j, B) ==
  CASE g.kind \in {"list", "obj"} ->
         [B EXCEPT ![g.items[i].buf].data[j][1] = Mark]
    [] g.kind = "arr2d" -> [B EXCEPT ![g.buf].data[i][j][1] = Mark]
    [] OTHER -> B

----------------------------------------------------------------------------
\* The state machine

\* `last` describes the latest call.  A call that returned: its receiver, its
\* argument and the Catalog it returned.  A call that raised: the error, its
\* message, the type of the argument and, for the persistence calls, the
\* receiver
NoCall == [op |-> "init", recv |-> 0, arg |-> [type |-> "none", val |-> <<>>],
           res |-> 0, err |-> "none", msg |-> ""]

Call(op, c, type, val, res) ==
  [op |-> op, recv |-> c, arg |-> [type |-> type, val |-> val],
   res |-> res, err |-> "none", msg |-> ""]

Raise(op, c, type, err, msg) ==
  [op |-> op, recv |-> c, arg |-> [type |-> type, val |-> <<>>],
   res |-> 0, err |-> err, msg |-> msg]

\* the file np.save writes for an empty array of floats: its dtype has no
\* fields, and its descr is [('', '<f8')]
PlainEmpty ==
  [kind |-> "npy", structured |-> FALSE,
   descr |-> <<[name |-> <<>>, type |-> "<f8", shape |-> <<>>]>>,
   data |-> <<>>]

Cols == {<<NgalName, MassName>>, <<NgalName, GalMassName>>}

\* The caller builds two Catalogs with the same columns: one with any
\* clusters within the bounds, one with a cluster of one galaxy and a
\* cluster of two; gal is a Python list of tables or np.array of that list
InitWith(colset, files) ==
  \E ngals \in SeqsUpTo(0..MaxNgal, MaxClusters), cols \in colset,
     asarray \in BOOLEAN :
    LET n == Len(ngals)
        tabs == [c \in 1..n |-> Table(c, ngals[c])]
        refs == [c \in 1..n |-> Ref(c)]
        a == NpArray(refs, tabs)
        B1 == IF asarray THEN a.bufs ELSE tabs
        m == Len(B1)
        B2 == B1 \o <<Table(MaxClusters + 1, 1), Table(MaxClusters + 2, 2)>>
    IN /\ dicts = <<EmptyDict, [k \in {ParKey} |-> 1], [k \in {ParKey} |-> 2]>>
       /\ frames = <<Frame(cols, ngals, 0), Frame(cols, <<1, 2>>, MaxClusters)>>
       /\ bufs = B2
       /\ cats = <<[par |-> 2, prop |-> 1,
                    gal |-> IF asarray THEN a.gal
                            ELSE [kind |-> "list", items |-> refs]],
                   [par |-> 3, prop |-> 2,
                    gal |-> [kind |-> IF asarray THEN "obj" ELSE "list",
                             items |-> <<Ref(m + 1), Ref(m + 2)>>]]>>
       /\ file \in files
       /\ last = NoCall
       /\ nloads = 0
       /\ nupdates = 0

\* indexing and concatenation never read a column's name
Init == InitWith({<<NgalName, MassName>>}, {[kind |-> "missing"]})

\* the file does not exist, or was written by another program
InitStore ==
  \/ InitWith(Cols, {[kind |-> "missing"]})
  \/ InitWith({<<NgalName, MassName>>}, {PlainEmpty})

CatIds == 1..Len(cats)

\* the selectors tried on a Catalog of n clusters; val holds the integer of
\* an int, the indices of a list or an array
Keys(n) ==
  {[type |-> "int", val |-> <<i>>] : i \in -1..n}
  \cup {[type |-> "bool", val |-> <<1>>]}
  \cup {[type |-> t, val |-> s] :
          t \in {"list", "ndarray"},
          s \in SeqsUpTo(0..(n - 1), MaxKeyLen) \cup {<<n>>}}
  \cup {[type |-> t, val |-> <<>>] : t \in {"str", "slice"}}

\* Catalog(par=..., prop=..., gal=...): a new Catalog object with the fields r
NewCatalog(r) ==
  /\ Len(cats) < MaxCats
  /\ frames' = IF r.slot > Len(frames) THEN Append(frames, r.prop)
               ELSE [frames EXCEPT ![r.slot] = r.prop]
  /\ bufs' = r.bufs
  /\ cats' = Append(cats, [par |-> r.par, prop |-> r.slot, gal |-> r.gal])

\* r = c[key]
GetItemCall(c, key) ==
  LET r == GetItem(c, key) IN
  IF r.err # "none"
    THEN /\ last' = Raise("getitem", 0, key.type, r.err, r.msg)
         /\ UNCHANGED <<heap, file, counters>>
    ELSE /\ NewCatalog(r)
         /\ last' = Call("getitem", c, key.type, key.val, Len(cats) + 1)
         /\ UNCHANGED <<dicts, file, counters>>

DoGetItem ==
  \E c \in CatIds :
    \/ \E key \in Keys(CatLen(c)) : IsTabular(c) /\ GetItemCall(c, key)
    \/ \E key \in Keys(0) : ~KeyAccepted(key) /\ ~IsTabular(c)
                            /\ GetItemCall(c, key)

\* r = a + b
DoAdd ==
  \E a \in CatIds, b \in CatIds :
    /\ IsTabular(a) /\ IsTabular(b)
    /\ frames[cats[a].prop].cols = frames[cats[b].prop].cols
    /\ LET r == Add(a, b) IN
       IF r.err # "none"
         THEN /\ last' = Raise("add", 0, "cat", r.err, r.msg)
              /\ UNCHANGED <<heap, file, counters>>
         ELSE /\ NewCatalog(r)
              /\ last' = Call("add", a, "cat", <<b>>, Len(cats) + 1)
              /\ UNCHANGED <<dicts, file, counters>>

\* c.save(file)
DoSave ==
  \E c \in CatIds :
    /\ file' = Pickled(c)
    /\ last' = Call("save", c, "none", <<>>, 0)
    /\ UNCHANGED <<heap, counters>>

\* the receiver after a load assigned the fields r.assigned: par is the
\* dict p, prop a new frame, gal the arrays read
Assign(c, r, p) ==
  /\ frames' = IF "prop" \in r.assigned THEN Append(frames, r.prop)
               ELSE frames
  /\ bufs' = IF "gal" \in r.assigned THEN r.bufs ELSE bufs
  /\ cats' = [cats EXCEPT ![c] =
                [par |-> IF "par" \in r.assigned THEN p ELSE @.par,
                 prop |-> IF "prop" \in r.assigned THEN Len(frames) + 1
                          ELSE @.prop,
                 gal |-> IF "gal" \in r.assigned THEN r.gal ELSE @.gal]]

\* c.load(file)
DoLoad ==
  \E c \in CatIds :
    LET r == Unpickle(file)
        fresh == "par" \in r.assigned /\ r.par[1] = "dict"
    IN /\ r.err = "none" => nloads < MaxLoads
       /\ nloads' = IF r.err = "none" THEN nloads + 1 ELSE nloads
       /\ dicts' = IF fresh THEN Append(dicts, r.par[2]) ELSE dicts
       /\ Assign(c, r, IF fresh THEN Len(dicts) + 1 ELSE None)
       /\ last' = IF r.err = "none" THEN Call("load", c, "none", <<>>, c)
                  ELSE Raise("load", c, "none", r.err, "")
       /\ UNCHANGED <<file, nupdates>>

\* c.save_npy(file)
DoSaveNpy ==
  \E c \in CatIds :
    /\ IsTabular(c)
    /\ LET r == SaveNpy(c) IN
       IF r.err # "none"
         THEN /\ last' = Raise("save_npy", c, "none", r.err, "")
              /\ UNCHANGED file
         ELSE /\ last' = Call("save_npy", c, "none", <<>>, 0)
              /\ file' = r.arr
    /\ UNCHANGED <<heap, counters>>

\* c.load_npy(file) and c.load_npy(file, par={...})
DoLoadNpy ==
  \E c \in CatIds, given \in BOOLEAN :
    LET par == IF given THEN Len(dicts) + 1 ELSE DefaultPar
        r == LoadNpy(file, par)
    IN /\ r.assigned # {} => nloads < MaxLoads
       /\ nloads' = IF r.assigned # {} THEN nloads + 1 ELSE nloads
       /\ dicts' = IF given /\ "par" \in r.assigned
                     THEN Append(dicts, [k \in {ParKey} |-> 3])
                     ELSE dicts
       /\ Assign(c, r, r.par)
       /\ last' = IF r.err = "none"
                    THEN Call("load_npy", c, "par", <<given>>, c)
                    ELSE Raise("load_npy", c, "par", r.err, "")
       /\ UNCHANGED <<file, nupdates>>

\* c.par['name'] = Mark
DoSetPar ==
  \E c \in CatIds :
    /\ nupdates < MaxUpdates
    /\ cats[c].par # None
    /\ dicts' = [dicts EXCEPT ![cats[c].par] = ParSet(@)]
    /\ nupdates' = nupdates + 1
    /\ last' = Call("setpar", c, "none", <<>>, 0)
    /\ UNCHANGED <<frames, bufs, cats, file, nloads>>

\* c.prop.loc[i, col] = Mark for the column after Ngal
DoSetProp ==
  \E c \in CatIds :
    /\ nupdates < MaxUpdates
    /\ IsTabular(c)
    /\ \E i \in 1..CatLen(c) :
         /\ frames' = [frames EXCEPT ![cats[c].prop].rows[i][2] = Mark]
         /\ last' = Call("setprop", c, "row", <<i>>, 0)
    /\ nupdates' = nupdates + 1
    /\ UNCHANGED <<dicts, bufs, cats, file, nloads>>

\* c.gal[i][field][j] = Mark
DoSetGal ==
  \E c \in CatIds :
    /\ nupdates < MaxUpdates
    /\ IsTabular(c)
    /\ \E i \in 1..GalLen(cats[c].gal, bufs) :
         \E j \in 1..Len(GalElems(cats[c].gal, bufs)[i].val) :
           /\ bufs' = GalSet(cats[c].gal, i, j, bufs)
           /\ last' = Call("setgal", c, "cell", <<i, j>>, 0)
    /\ nupdates' = nupdates + 1
    /\ UNCHANGED <<dicts, frames, cats, file, nloads>>

\* indexing, concatenation and in-place updates
Next ==
  \/ DoGetItem
  \/ DoAdd
  \/ DoSetProp
  \/ DoSetGal

Spec == Init /\ [][Next]_vars

\* the two persistence paths and the metadata
NextStore ==
  \/ DoSave
  \/ DoLoad
  \/ DoSaveNpy
  \/ DoLoadNpy
  \/ DoSetPar

SpecStore == InitStore /\ [][NextStore]_vars

----------------------------------------------------------------------------
\* The claims.  Prop(c) and Members(c) are what a caller reads as
\* c.prop and c.gal[0], c.gal[1], ...

Prop(c) == frames[cats[c].prop]

Members(c) == GalElems(cats[c].gal, bufs)

\* the data-model invariants: a table of properties with an Ngal column and
\* one galaxy table of Ngal[i] rows per cluster
WellFormed(c) ==
  /\ IsTabular(c)
  /\ NgalName \in Range(Prop(c).cols)
  /\ Len(Members(c)) = Len(Prop(c).rows)
  /\ \A i \in 1..Len(Members(c)) :
       Len(Members(c)[i].val) = Prop(c).rows[i][ColPos(Prop(c).cols, NgalName)]

\* the indices a selector names
Selected(arg) == arg.val

Returned(op) == last.op = op /\ last.err = "none"

\* C2: every Catalog has as many members as rows of properties, and len()
\* is that number.
C2_CountInvariant ==
  \A c \in CatIds :
    /\ CatLen(c) = PropLen(Prop(c))
    /\ CatLen(c) = GalLen(cats[c].gal, bufs)

\* C3: in every Catalog, element i of members is a galaxy table with
\* properties.Ngal[i] rows.
C3_PairingInvariant ==
  \A c \in CatIds :
    /\ Prop(c).kind = "frame"
    /\ NgalName \in Range(Prop(c).cols)
    /\ \A i \in 1..Max(PropLen(Prop(c)), Len(Members(c))) :
         /\ i <= Len(Prop(c).rows)
         /\ i <= Len(Members(c))
         /\ Members(c)[i].t = "table"
         /\ Len(Members(c)[i].val)
              = Prop(c).rows[i][ColPos(Prop(c).cols, NgalName)]

\* C4: indexing with an int, a list or an array of in-range indices returns
\* a Catalog whose properties are the selected rows in selector order,
\* labelled 0..k-1, whose members are the galaxy tables at these indices and
\* whose metadata is the source's.
C4_IndexingProjects ==
  /\ (last.op = "getitem" /\ last.arg.type \in {"int", "list", "ndarray"})
       => last.err \in {"none", "IndexError"}
  /\ Returned("getitem") =>
       LET src == Prop(last.recv)
           n == Len(src.rows)
           sel == Selected(last.arg)
           res == Prop(last.res)
       IN /\ res.kind = "frame"
          /\ res.cols = src.cols
          /\ res.index = [k \in 1..Len(sel) |-> k - 1]
          /\ res.rows = [k \in 1..Len(sel) |-> src.rows[Pos(sel[k], n)]]
          /\ Members(last.res)
               = [k \in 1..Len(sel) |-> Members(last.recv)[Pos(sel[k], n)]]
          /\ cats[last.res].par = cats[last.recv].par

\* C5: A + B has A's rows followed by B's, labelled 0..len(A)+len(B)-1, A's
\* galaxy tables followed by B's, one per cluster, and A's metadata.
C5_ConcatKeepsOrder ==
  Returned("add") =>
    LET a == last.recv
        b == last.arg.val[1]
        res == Prop(last.res)
    IN /\ res.kind = "frame"
       /\ res.cols = Prop(a).cols
       /\ res.rows = Prop(a).rows \o Prop(b).rows
       /\ res.index = [k \in 1..Len(res.rows) |-> k - 1]
       /\ Members(last.res) = Members(a) \o Members(b)
       /\ cats[last.res].par = cats[a].par

\* C6: a selector that is not an int, a list or an array is refused with an
\* error that names its type, and the call changes no object.
C6_SelectorTypeCheck ==
  /\ [](last.op = "getitem" /\ ~(last.arg.type \in {"int", "bool", "list", "ndarray"})
          => /\ last.err = "Exception"
             /\ last.msg = "Unknown key type: " \o TypeRepr(last.arg.type))
  /\ [][last'.op = "getitem" /\ last'.err = "Exception"
          => UNCHANGED <<dicts, frames, bufs, cats, file>>]_vars

C6_Witness ==
  /\ last.op = "getitem" /\ last.arg.type = "str"
  /\ last.msg = "Unknown key type: <class 'str'>"

\* what a caller reads in Catalog c's properties and members
View(c) == [prop |-> Prop(c), gal |-> Members(c)]

Updated == last.op \in {"setprop", "setgal"}

----------------------------------------------------------------------------
\* The padded-array path

\* the Catalog load_npy makes of the file, as a caller reads it
Decoded ==
  LET r == LoadNpy(file, DefaultPar) IN
  IF r.err # "none" THEN [err |-> r.err]
  ELSE [err |-> "none", cols |-> r.prop.cols, rows |-> r.prop.rows,
        index |-> r.prop.index, gal |-> GalElems(r.gal, r.bufs),
        names |-> IF r.prop.rows = <<>> THEN <<>>
                  ELSE GalNames(r.gal, r.bufs)]

Ngal(c) ==
  [i \in 1..CatLen(c) |-> Prop(c).rows[i][ColPos(Prop(c).cols, NgalName)]]

\* C1: save_npy of a Catalog that satisfies the data-model invariants writes
\* an array from which load_npy rebuilds the same columns in the same order,
\* the same rows in the same order and, for every cluster, the same galaxy
\* table (length, field names, values).
C1_RoundTrip ==
  (last.op = "save_npy" /\ WellFormed(last.recv)) =>
    /\ last.err = "none"
    /\ Decoded.err = "none"
    /\ Decoded.cols = Prop(last.recv).cols
    /\ Decoded.rows = Prop(last.recv).rows
    /\ Decoded.gal = Members(last.recv)
    /\ CatLen(last.recv) > 0 =>
         Decoded.names = GalNames(cats[last.recv].gal, bufs)

\* C7: a load_npy call that supplies no metadata mapping leaves the Catalog
\* with an empty mapping, whatever happened before, and a call that supplies a
\* mapping leaves the Catalog with that mapping.
C7_MetadataOnLoadNpy ==
  (last.op = "load_npy" /\ last.err = "none") =>
    dicts[cats[last.recv].par]
      = IF last.arg.val[1] THEN [k \in {ParKey} |-> 3] ELSE EmptyDict

\* C8: save_npy of a Catalog with at least one cluster writes len(properties)
\* records whose galaxy vectors have length max(Ngal), the first Ngal[i] slots
\* holding members[i] in order and the others zero, and load_npy builds
\* members[i] from exactly the first Ngal[i] slots.
C8_PaddingLayout ==
  (last.op = "save_npy" /\ WellFormed(last.recv) /\ CatLen(last.recv) > 0) =>
    LET c == last.recv
        n == CatLen(c)
        ncols == Len(Prop(c).cols)
        max_ngal == SeqMax(Ngal(c))
    IN /\ last.err = "none"
       /\ file.kind = "npy"
       /\ Len(file.data) = n
       /\ \A i \in 1..n : \A k \in (ncols + 1)..Len(file.descr) :
            /\ Len(file.data[i][k]) = max_ngal
            /\ \A j \in 1..max_ngal :
                 file.data[i][k][j]
                   = IF j <= Ngal(c)[i] THEN Members(c)[i].val[j][k - ncols]
                     ELSE Zero
       /\ Decoded.err = "none" =>
            \A i \in 1..n :
              /\ Len(Decoded.gal[i].val) = Ngal(c)[i]
              /\ \A j \in 1..Ngal(c)[i] : \A k \in (ncols + 1)..Len(file.descr) :
                   Decoded.gal[i].val[j][k - ncols] = file.data[i][k][j]

\* C10: a load or load_npy that fails leaves every object as it was; one that
\* succeeds returns the receiver, with metadata, properties and members all
\* replaced by what was read, and leaves the other Catalogs' fields alone.
C10_LoadsAllOrNothing ==
  [][last'.op \in {"load", "load_npy"} =>
       IF last'.err # "none"
         THEN UNCHANGED <<dicts, frames, bufs, cats>>
         ELSE /\ last'.res = last'.recv
              /\ cats'[last'.recv].prop = Len(frames) + 1
              /\ BufIds(cats'[last'.recv].gal) \subseteq (Len(bufs) + 1)..Len(bufs')
              /\ cats'[last'.recv].par \in
                   {None, DefaultPar} \cup (Len(dicts) + 1)..Len(dicts')
              /\ \A d \in CatIds \ {last'.recv} : cats'[d] = cats[d]]_vars

====
